---- MODULE Spec2Model ----
(***************************************************************************)
(* Password evaluation service: src/index.js (the express application, the *)
(* dictionary load and the POST /api/v1/password/evaluate handler) and     *)
(* src/passwordLogic.js (the scoring and matching functions).              *)
(*                                                                         *)
(* Representation.                                                         *)
(*  - A JavaScript string is the sequence of its UTF-16 code units, each   *)
(*    an integer (so "passw" is <<112, 97, 115, 115, 119>>).               *)
(*  - A real number of bits (the entropy) is an integer number of          *)
(*    thousandths of a bit; base-2 logarithms are carried in millionths.   *)
(*  - The Set commonPasswords is the sequence of its members in insertion  *)
(*    order, without duplicates (the iteration order of a JavaScript Set). *)
(*  - Node runs every callback to completion, so each callback (a stream   *)
(*    'data' event, the stream 'end' event, one request handler call) is   *)
(*    one action.                                                          *)
(***************************************************************************)
EXTENDS Integers, Sequences, FiniteSets, TLC

VARIABLES commonPasswords,  \* index.js: const commonPasswords = new Set()
          loadEnded,        \* the read stream has emitted 'end'
          nData,            \* number of 'data' events delivered so far
          log,              \* the handled requests, in the order handled
          probe             \* last application of a pure function (SpecPure)

vars == <<commonPasswords, loadEnded, nData, log, probe>>

----------------------------------------------------------------------------
(* Bounds *)

MaxData == 2        \* 'data' events (CSV rows) delivered by the stream
MaxRequests == 2    \* evaluation requests handled
MaxLen == 4         \* length of the strings calculateN is probed with
MaxEntropy == 100   \* largest entropy, in whole bits, the classifier is probed with

----------------------------------------------------------------------------
(* JavaScript values *)

\* null: a one-element sequence holding no code unit, so it differs from
\* every string and can still be compared with one.
NULL == <<-1>>

JSValue(type, str, num, bool) ==
    [type |-> type, str |-> str, num |-> num, bool |-> bool]

JSUndefined == JSValue("undefined", <<>>, 0, FALSE)
JSNull == JSValue("object-null", <<>>, 0, FALSE)
JSNumber(n) == JSValue("number", <<>>, n, FALSE)
JSString(s) == JSValue("string", s, 0, FALSE)

\* typeof v
TypeOf(v) == IF v.type = "object-null" THEN "object" ELSE v.type

\* ToBoolean(v): the truthiness `!v` negates
Truthy(v) ==
    CASE v.type = "undefined" -> FALSE
      [] v.type = "object-null" -> FALSE
      [] v.type = "number" -> v.num # 0
      [] v.type = "boolean" -> v.bool
      [] v.type = "string" -> v.str # <<>>
      [] v.type = "object" -> TRUE

----------------------------------------------------------------------------
(* String primitives *)

\* String.prototype.toLowerCase on one code unit (Basic Latin and Latin-1)
LowerUnit(c) ==
    IF (c >= 65 /\ c <= 90) \/ (c >= 192 /\ c <= 222 /\ c # 215)
    THEN c + 32
    ELSE c

toLowerCase(s) == [i \in 1..Len(s) |-> LowerUnit(s[i])]

\* String.prototype.includes
includes(s, t) ==
    \E k \in 0..(Len(s) - Len(t)) :
        \A i \in 1..Len(t) : s[k + i] = t[i]

\* the character classes of calculateN's regular expressions
IsLower(c) == c >= 97 /\ c <= 122
IsUpper(c) == c >= 65 /\ c <= 90
IsDigit(c) == c >= 48 /\ c <= 57
\* [ `!@#$%^&*()_+\-=\[\]{};':"\\|,.<>\/?~] : space and the 32 ASCII punctuation marks
IsSymbol(c) ==
    c \in {32, 96, 33, 64, 35, 36, 37, 94, 38, 42, 40, 41, 95, 43, 45, 61,
           91, 93, 123, 125, 59, 39, 58, 34, 92, 124, 44, 46, 60, 62, 47, 63, 126}

\* the code units of a string
Units(s) == {s[i] : i \in 1..Len(s)}

----------------------------------------------------------------------------
(* src/passwordLogic.js *)

calculateL(password) ==
    IF password = <<>> THEN 0 ELSE Len(password)

calculateN_FirstClassOnly(password) ==
    IF password = <<>> THEN 0
    ELSE IF (\E c \in Units(password) : IsLower(c)) THEN 26
    ELSE IF (\E c \in Units(password) : IsUpper(c)) THEN 26
    ELSE IF (\E c \in Units(password) : IsDigit(c)) THEN 10
    ELSE IF (\E c \in Units(password) : IsSymbol(c)) THEN 32
    ELSE 0

calculateN(password) ==
    IF password = <<>> THEN 0
    ELSE (IF (\E c \in Units(password) : IsLower(c)) THEN 26 ELSE 0)
       + (IF (\E c \in Units(password) : IsUpper(c)) THEN 26 ELSE 0)
       + (IF (\E c \in Units(password) : IsDigit(c)) THEN 10 ELSE 0)
       + (IF (\E c \in Units(password) : IsSymbol(c)) THEN 32 ELSE 0)

\* Math.log2(N) in millionths (rounded down), for the values calculateN returns
Log2Micro(N) ==
    CASE N = 10 -> 3321928
      [] N = 26 -> 4700439
      [] N = 32 -> 5000000
      [] N = 36 -> 5169925
      [] N = 42 -> 5392317
      [] N = 52 -> 5700439
      [] N = 58 -> 5857980
      [] N = 62 -> 5954196
      [] N = 68 -> 6087462
      [] N = 78 -> 6285402
      [] N = 84 -> 6392317
      [] N = 94 -> 6554588

\* L * Math.log2(N), in thousandths of a bit
calculateEntropy(L, N) ==
    IF N = 0 THEN 0 ELSE (L * Log2Micro(N)) \div 1000

checkPasswordStrength_Exclusive(entropy) ==
    IF entropy <= 60 * 1000 THEN "Débil"
    ELSE IF entropy > 60 * 1000 /\ entropy <= 80 * 1000 THEN "Fuerte"
    ELSE "Muy Fuerte"

checkPasswordStrength(entropy) ==
    IF entropy < 60 * 1000 THEN "Débil"
    ELSE IF entropy >= 60 * 1000 /\ entropy < 80 * 1000 THEN "Fuerte"
    ELSE "Muy Fuerte"

\* A crack-time text. A fixed text has numeric = FALSE; `${x.toFixed(2)} unit`
\* has numeric = TRUE and carries x as its base-2 logarithm in millionths.
FixedText(t) == [numeric |-> FALSE, lg |-> 0, text |-> t]
Amount(lg, unit) == [numeric |-> TRUE, lg |-> lg, text |-> unit]

\* log2, in millionths, of the numbers calculateCrackTime divides by and
\* compares with (rounded up, so that x < c is lg(x) < Lg(c) on the grid)
Lg1e11 == 36541210     \* attemptsPerSecond = 1e11
Lg60 == 5906891
Lg24 == 4584963
Lg365 == 8511753
Lg1e6 == 19931569

\* seconds = 2^entropy / 1e11, carried as lgSeconds = log2(seconds); a
\* division is a subtraction of logarithms and x < c is lg(x) < lg(c).
calculateCrackTime(entropy) ==
    LET lgSeconds == entropy * 1000 - Lg1e11
        lgMinutes == lgSeconds - Lg60
        lgHours == lgMinutes - Lg60
        lgDays == lgHours - Lg24
        lgYears == lgDays - Lg365
    IN  IF lgSeconds < 0 THEN FixedText("Instantáneo")
        ELSE IF lgSeconds < Lg60 THEN Amount(lgSeconds, " segundos")
        ELSE IF lgMinutes < Lg60 THEN Amount(lgMinutes, " minutos")
        ELSE IF lgHours < Lg24 THEN Amount(lgHours, " horas")
        ELSE IF lgDays < Lg365 THEN Amount(lgDays, " días")
        ELSE IF lgYears < Lg1e6 THEN Amount(lgYears, " años")
        ELSE FixedText("Millones de años")

MIN_LENGTH == 5

RECURSIVE ScanFrom_NoMinLength(_, _, _)
ScanFrom_NoMinLength(password, commonPasswordsSet, i) ==
    IF i > Len(commonPasswordsSet) THEN NULL
    ELSE LET commonPass == commonPasswordsSet[i]
         IN  IF includes(toLowerCase(password), commonPass)
             THEN commonPass
             ELSE ScanFrom_NoMinLength(password, commonPasswordsSet, i + 1)

\* for (const commonPass of commonPasswordsSet): the scan from position i on
RECURSIVE ScanFrom(_, _, _)
ScanFrom(password, commonPasswordsSet, i) ==
    IF i > Len(commonPasswordsSet) THEN NULL
    ELSE LET commonPass == commonPasswordsSet[i]
         IN  IF Len(commonPass) >= MIN_LENGTH
                /\ includes(toLowerCase(password), commonPass)
             THEN commonPass
             ELSE ScanFrom(password, commonPasswordsSet, i + 1)

RECURSIVE ScanBack(_, _, _)
ScanBack(password, commonPasswordsSet, i) ==
    IF i < 1 THEN NULL
    ELSE LET commonPass == commonPasswordsSet[i]
         IN  IF Len(commonPass) >= MIN_LENGTH
                /\ includes(toLowerCase(password), commonPass)
             THEN commonPass
             ELSE ScanBack(password, commonPasswordsSet, i - 1)

findPartialMatch_Last(password, commonPasswordsSet) ==
    ScanBack(password, commonPasswordsSet, Len(commonPasswordsSet))

findPartialMatch(password, commonPasswordsSet) ==
    ScanFrom(password, commonPasswordsSet, 1)

----------------------------------------------------------------------------
(* src/index.js *)

\* Set.prototype.has
has(set, v) == \E i \in 1..Len(set) : set[i] = v

\* Set.prototype.add: a value already present keeps its position
add(set, v) == IF has(set, v) THEN set ELSE Append(set, v)

\* parseFloat(entropy.toFixed(2)): the entropy in hundredths of a bit
toFixed2(entropy) == (entropy + 5) \div 10

Recommendation(template, word) == [template |-> template, word |-> word]

\* res.status(400).json({ error: ... })
BadRequest ==
    [status |-> 400,
     error |-> "La contraseña es requerida y debe ser un texto (string)."]

\* JavaScript's `if (partialMatch)`: neither null nor the empty string
IsMatch(partialMatch) == partialMatch # NULL /\ partialMatch # <<>>

\* the scoring calls every valid request makes (index.js lines 137-142)
Scoring ==
    {"calculateL", "calculateN", "calculateEntropy", "checkPasswordStrength",
     "calculateCrackTime", "commonPasswords.has"}

Match_AlwaysScan(password, corpus) ==
    [isCommon |-> has(corpus, password),
     partialMatch |-> findPartialMatch(password, corpus),
     calls |-> Scoring \cup {"findPartialMatch"}]

\* index.js lines 142-160: the exact lookup, and the partial search in the
\* else branch only
Match(password, corpus) ==
    LET isCommon == has(corpus, password)
    IN  IF isCommon
        THEN [isCommon |-> TRUE, partialMatch |-> NULL, calls |-> Scoring]
        ELSE [isCommon |-> FALSE,
              partialMatch |-> findPartialMatch(password, corpus),
              calls |-> Scoring \cup {"findPartialMatch"}]

\* index.js lines 145-160: finalStrength
finalStrength(strength, isCommon, partialMatch) ==
    IF isCommon THEN "Muy Débil (Común)"
    ELSE IF IsMatch(partialMatch) THEN "Débil (Predecible)"
    ELSE strength

\* index.js lines 146-160: recommendation
recommendation(isCommon, partialMatch) ==
    IF isCommon
    THEN Recommendation("Esta contraseña es comun entre las contraseñas filtradas. Cambiala por una más segura.", NULL)
    ELSE IF IsMatch(partialMatch)
    THEN Recommendation("Tu contraseña contiene la palabra común '${partialMatch}'", partialMatch)
    ELSE Recommendation("¡Buena contraseña!", NULL)

estimatedCrackTime_NoOverride(isCommon, crackTime) == crackTime

\* index.js line 174
estimatedCrackTime(isCommon, crackTime) ==
    IF isCommon
    THEN FixedText("Instantáneo (está en listas de filtraciones)")
    ELSE crackTime

\* The handler past its input guard, for the string `password`: res is the
\* response it sends, calls the functions it has invoked.
Respond(password, corpus) ==
    LET L == calculateL(password)
        N == calculateN(password)
        entropy == calculateEntropy(L, N)
        strength == checkPasswordStrength(entropy)
        crackTime == calculateCrackTime(entropy)
        m == Match(password, corpus)
    IN  [res |->
           [status |-> 200,
            password |-> "***",
            evaluation |->
               [length |-> L,
                keyspace |-> N,
                entropy |-> toFixed2(entropy),
                strength |-> finalStrength(strength, m.isCommon, m.partialMatch),
                isCommon |-> m.isCommon,
                containedCommonWord |-> m.partialMatch],
            security_tips |->
               [estimatedCrackTime |-> estimatedCrackTime(m.isCommon, crackTime),
                recommendation |-> recommendation(m.isCommon, m.partialMatch)]],
         calls |-> m.calls]

Handle_NoEmptyCheck(password, corpus) ==
    IF TypeOf(password) # "string"
    THEN [res |-> BadRequest, calls |-> {}]
    ELSE Respond(password.str, corpus)

\* app.post('/api/v1/password/evaluate', (req, res) => ...) on a body whose
\* password field is the JavaScript value `password`
Handle(password, corpus) ==
    IF ~Truthy(password) \/ TypeOf(password) # "string"
    THEN [res |-> BadRequest, calls |-> {}]
    ELSE Respond(password.str, corpus)

----------------------------------------------------------------------------
(* Inputs *)

passw == <<112, 97, 115, 115, 119>>                \* "passw"
Passw == <<80, 97, 115, 115, 119>>                 \* "Passw"
pass == <<112, 97, 115, 115>>                      \* "pass"
digits == <<49, 50, 51, 52, 53>>                   \* "12345"
pass1 == <<112, 97, 115, 115, 49>>                 \* "pass1"
PASSW12345 == <<80, 65, 83, 83, 87, 49, 50, 51, 52, 53>>   \* "PASSW12345"
enye == <<241>>                                    \* "ñ"
bangs == [i \in 1..12 |-> 33]                      \* "!!!!!!!!!!!!"

\* the rows csv-parser delivers: the password column of each
Rows ==
    {JSString(passw), JSString(Passw), JSString(pass), JSString(digits),
     JSString(bangs), JSString(<<>>), JSUndefined}

\* the password field of the request bodies
Bodies ==
    {JSUndefined, JSNull, JSNumber(0), JSNumber(7), JSString(<<>>),
     JSString(passw), JSString(Passw), JSString(pass1), JSString(PASSW12345),
     JSString(enye), JSString(bangs)}

\* one code unit of each class calculateN tests, and two of none:
\* 'a', 'Z', '5', '-', ' ', 'ñ', TAB
Alphabet == {97, 90, 53, 45, 32, 241, 9}

Strings(n) == UNION {[1..k -> Alphabet] : k \in 0..n}

NoProbe == [fn |-> "none", password |-> <<>>, entropy |-> 0, N |-> 0, label |-> "", done |-> FALSE]

----------------------------------------------------------------------------
(* The service *)

\* The state when the module's top-level code has run: the Set is empty, the
\* read stream is open and has delivered nothing, and app.listen has been
\* called, so the handler can run from here on.
Init ==
    /\ commonPasswords = <<>>
    /\ loadEnded = FALSE
    /\ nData = 0
    /\ log = <<>>
    /\ probe = NoProbe

\* .on('data', (row) => { if (row.password) commonPasswords.add(row.password) })
\* A stream delivers no 'data' after its 'end'.
OnData ==
    /\ ~loadEnded
    /\ nData < MaxData
    /\ \E password \in Rows :
          commonPasswords' = IF Truthy(password)
                             THEN add(commonPasswords, password.str)
                             ELSE commonPasswords
    /\ nData' = nData + 1
    /\ UNCHANGED <<loadEnded, log, probe>>

\* .on('end', () => console.log(...))
OnEnd ==
    /\ ~loadEnded
    /\ loadEnded' = TRUE
    /\ UNCHANGED <<commonPasswords, nData, log, probe>>

Entry(password, r, ended) ==
    [password |-> password, res |-> r.res, calls |-> r.calls, loadEnded |-> ended]

\* partialMatch kept outside the handler: an exact match leaves the previous
\* request's word in it
Evaluate_SharedPartial ==
    /\ Len(log) < MaxRequests
    /\ \E password \in Bodies :
          LET r == Handle(password, commonPasswords)
              stale == IF log # <<>> /\ log[Len(log)].res.status = 200
                       THEN log[Len(log)].res.evaluation.containedCommonWord
                       ELSE NULL
              q == IF r.res.status = 200 /\ r.res.evaluation.isCommon
                   THEN [r EXCEPT !.res.evaluation.containedCommonWord = stale]
                   ELSE r
          IN  log' = Append(log, Entry(password, q, loadEnded))
    /\ UNCHANGED <<commonPasswords, loadEnded, nData, probe>>

\* the handler adds the evaluated password to the Set
Evaluate_Caching ==
    /\ Len(log) < MaxRequests
    /\ \E password \in Bodies :
          LET r == Handle(password, commonPasswords)
          IN  /\ log' = Append(log, Entry(password, r, loadEnded))
              /\ commonPasswords' = IF r.res.status = 200
                                    THEN add(commonPasswords, password.str)
                                    ELSE commonPasswords
    /\ UNCHANGED <<loadEnded, nData, probe>>

\* one call of the POST /api/v1/password/evaluate handler
Evaluate ==
    /\ Len(log) < MaxRequests
    /\ \E password \in Bodies :
          LET r == Handle(password, commonPasswords)
          IN  log' = Append(log, Entry(password, r, loadEnded))
    /\ UNCHANGED <<commonPasswords, loadEnded, nData, probe>>

Next == OnData \/ OnEnd \/ Evaluate

Spec == Init /\ [][Next]_vars

----------------------------------------------------------------------------
(* The pure functions of passwordLogic.js, applied to bounded inputs *)

Input(fn, password, entropy) ==
    [fn |-> fn, password |-> password, entropy |-> entropy,
     N |-> 0, label |-> "", done |-> FALSE]

InitPure ==
    /\ commonPasswords = <<>>
    /\ loadEnded = FALSE
    /\ nData = 0
    /\ log = <<>>
    /\ probe \in {Input("checkPasswordStrength", <<>>, entropy) :
                     entropy \in 0..(MaxEntropy * 1000)}
                 \cup {Input("calculateN", password, 0) :
                          password \in Strings(MaxLen)}

ProbeStrength ==
    /\ probe.fn = "checkPasswordStrength"
    /\ ~probe.done
    /\ probe' = [probe EXCEPT !.label = checkPasswordStrength(probe.entropy),
                              !.done = TRUE]
    /\ UNCHANGED <<commonPasswords, loadEnded, nData, log>>

ProbeKeyspace ==
    /\ probe.fn = "calculateN"
    /\ ~probe.done
    /\ probe' = [probe EXCEPT !.N = calculateN(probe.password),
                              !.done = TRUE]
    /\ UNCHANGED <<commonPasswords, loadEnded, nData, log>>

NextPure == ProbeStrength \/ ProbeKeyspace

SpecPure == InitPure /\ [][NextPure]_vars

----------------------------------------------------------------------------
(* Properties *)

Range(seq) == {seq[i] : i \in 1..Len(seq)}
Handled == Range(log)
Ok(e) == e.res.status = 200
HandledNow == Len(log') = Len(log) + 1
Last == log'[Len(log')]
StringBodies == {b.str : b \in {x \in Bodies : x.type = "string" /\ x.str # <<>>}}

\* the entropy the handler computes for a password
EntropyOf(password) ==
    calculateEntropy(calculateL(password), calculateN(password))

\* the positions of the corpus entries of length >= 5 that the lowercased
\* password contains
Matching(password, corpus) ==
    {i \in 1..Len(corpus) :
        Len(corpus[i]) >= 5 /\ includes(toLowerCase(password), corpus[i])}

FirstMatching(password, corpus) ==
    LET M == Matching(password, corpus)
    IN  IF M = {} THEN NULL
        ELSE corpus[CHOOSE i \in M : \A j \in M : i <= j]

\* C1: no evaluation request is handled before the load's 'end' event: every
\* handled request was handled with loadEnded true.
C1_ReadinessGate ==
    \A e \in Handled : e.loadEnded

\* C2: when the raw password is a member of the corpus the response has
\* isCommon = true and containedCommonWord = null and findPartialMatch was not
\* invoked; no response has isCommon = true with a non-null containedCommonWord.
C2_ExactShortCircuits ==
    [][HandledNow /\ Ok(Last) =>
          LET ev == Last.res.evaluation
          IN  /\ Last.password.str \in Range(commonPasswords) =>
                    /\ ev.isCommon = TRUE
                    /\ ev.containedCommonWord = NULL
                    /\ "findPartialMatch" \notin Last.calls
              /\ ~(ev.isCommon /\ ev.containedCommonWord # NULL)]_vars

\* an exact match whose lowercased password also contains a corpus entry of
\* length >= 5, so that a partial search would have found a word
C2_Witness ==
    \E e \in Handled :
        /\ Ok(e) /\ e.loadEnded
        /\ e.res.evaluation.isCommon
        /\ Matching(e.password.str, commonPasswords) # {}

\* C3: a word returned by findPartialMatch (hence a non-null
\* containedCommonWord) is a member of the corpus, has length >= 5 and is a
\* substring of the lowercased password.
C3_PartialMatchSound ==
    /\ \A password \in StringBodies :
          LET w == findPartialMatch(password, commonPasswords)
          IN  w # NULL =>
                 /\ w \in Range(commonPasswords)
                 /\ Len(w) >= 5
                 /\ includes(toLowerCase(password), w)
    /\ \A e \in Handled :
          Ok(e) =>
             LET w == e.res.evaluation.containedCommonWord
             IN  w # NULL =>
                    /\ w \in Range(commonPasswords)
                    /\ Len(w) >= 5
                    /\ includes(toLowerCase(e.password.str), w)

\* a word was returned for a password that also contains a corpus entry of
\* length 4 or fewer
C3_Witness ==
    \E e \in Handled :
        /\ Ok(e)
        /\ e.res.evaluation.containedCommonWord # NULL
        /\ \E c \in Range(commonPasswords) :
              Len(c) <= 4 /\ includes(toLowerCase(e.password.str), c)

\* C4: an exact match gets the 'Muy Débil (Común)' label and the
\* 'Instantáneo (está en listas de filtraciones)' text whatever the entropy; a
\* partial match gets 'Débil (Predecible)', calculateCrackTime(entropy) and a
\* recommendation naming the word; no match gets checkPasswordStrength(entropy)
\* and calculateCrackTime(entropy), with containedCommonWord null.
C4_CompositionByMatchKind ==
    \A e \in Handled :
        Ok(e) =>
           LET ev == e.res.evaluation
               tips == e.res.security_tips
               entropy == EntropyOf(e.password.str)
               word == ev.containedCommonWord
           IN  /\ ev.isCommon =>
                    /\ ev.strength = "Muy Débil (Común)"
                    /\ tips.estimatedCrackTime =
                          FixedText("Instantáneo (está en listas de filtraciones)")
               /\ (~ev.isCommon /\ word # NULL) =>
                    /\ ev.strength = "Débil (Predecible)"
                    /\ tips.estimatedCrackTime = calculateCrackTime(entropy)
                    /\ tips.recommendation.word = word
               /\ (~ev.isCommon /\ word = NULL) =>
                    /\ ev.strength = checkPasswordStrength(entropy)
                    /\ tips.estimatedCrackTime = calculateCrackTime(entropy)

\* an exact match of a password whose entropy alone classifies as 'Fuerte'
C4_Witness ==
    \E e \in Handled :
        /\ Ok(e)
        /\ e.res.evaluation.isCommon
        /\ checkPasswordStrength(EntropyOf(e.password.str)) = "Fuerte"

\* C5: a password field that is absent, null, not a string or the empty
\* string gets the 400 response with the fixed message, with no scoring or
\* matching call made and the corpus unchanged; every non-empty string gets
\* 200 with a full evaluation.
C5_InvalidInput ==
    [][HandledNow =>
          LET v == Last.password
              valid == v.type = "string" /\ v.str # <<>>
          IN  /\ ~valid =>
                    /\ Last.res.status = 400
                    /\ Last.res.error =
                          "La contraseña es requerida y debe ser un texto (string)."
                    /\ Last.calls = {}
                    /\ commonPasswords' = commonPasswords
              /\ valid =>
                    /\ Last.res.status = 200
                    /\ DOMAIN Last.res =
                          {"status", "password", "evaluation", "security_tips"}
                    /\ Last.res.evaluation.length = Len(v.str)
                    /\ Scoring \subseteq Last.calls]_vars

\* the empty string was refused while the corpus held entries
C5_Witness ==
    /\ commonPasswords # <<>>
    /\ \E e \in Handled :
          e.password = JSString(<<>>) /\ e.res.status = 400 /\ e.calls = {}

\* C6: E < 60 is 'Débil', 60 <= E < 80 is 'Fuerte', E >= 80 is 'Muy Fuerte';
\* 60 and 80 themselves fall in the upper bucket.
C6_StrengthBuckets ==
    (probe.fn = "checkPasswordStrength" /\ probe.done) =>
        /\ probe.entropy < 60000 => probe.label = "Débil"
        /\ (probe.entropy >= 60000 /\ probe.entropy < 80000) =>
              probe.label = "Fuerte"
        /\ probe.entropy >= 80000 => probe.label = "Muy Fuerte"

\* the boundary 60.000 bits was classified
C6_Witness ==
    /\ probe.fn = "checkPasswordStrength" /\ probe.done
    /\ probe.entropy = 60000
    /\ probe.label = "Fuerte"

SubsetSums ==
    {26 * a + 26 * b + 10 * c + 32 * d : a, b, c, d \in {0, 1}}

\* C7 as claimed: calculateN returns a sum of a subset of {26, 26, 10, 32}
\* and returns 0 only for the empty input: every non-empty password has
\* N >= 10.
C7_ZeroOnlyWhenEmpty ==
    (probe.fn = "calculateN" /\ probe.done) =>
        /\ probe.N \in SubsetSums
        /\ probe.N = 0 => probe.password = <<>>
        /\ probe.password # <<>> => probe.N >= 10

\* C7 as amended: calculateN returns 26 for a lowercase letter present, 26
\* for an uppercase letter, 10 for a digit and 32 for a listed symbol or
\* space, summed; it returns 0 exactly when the input holds no character of
\* these four classes, and at least 10 otherwise.
C7_KeyspaceByClass ==
    (probe.fn = "calculateN" /\ probe.done) =>
        LET units == Range(probe.password)
            term(Class(_), n) == IF \E c \in units : Class(c) THEN n ELSE 0
            classed == {c \in units :
                          IsLower(c) \/ IsUpper(c) \/ IsDigit(c) \/ IsSymbol(c)}
        IN  /\ probe.N = term(IsLower, 26) + term(IsUpper, 26)
                            + term(IsDigit, 10) + term(IsSymbol, 32)
            /\ probe.N \in SubsetSums
            /\ probe.N = 0 <=> classed = {}
            /\ classed # {} => probe.N >= 10

\* a non-empty password of unlisted characters only got N = 0
C7_Witness ==
    /\ probe.fn = "calculateN" /\ probe.done
    /\ probe.password # <<>>
    /\ probe.N = 0

\* C8: against the loaded corpus, each response is the one the request gets
\* when evaluated alone, whatever was handled before it; the same password
\* evaluated twice gets identical responses.
C8_NoInterference ==
    /\ \A e \in Handled :
          e.loadEnded => e.res = Handle(e.password, commonPasswords).res
    /\ \A i, j \in 1..Len(log) :
          (log[i].loadEnded /\ log[j].loadEnded
             /\ log[i].password = log[j].password) =>
                log[i].res = log[j].res

\* an exact match handled after a partial match, and a password evaluated
\* twice, all against the loaded corpus
C8_Witness ==
    /\ Len(log) >= 2
    /\ \A e \in Handled : e.loadEnded /\ Ok(e)
    /\ \/ /\ log[1].res.evaluation.containedCommonWord # NULL
          /\ log[2].res.evaluation.isCommon
       \/ /\ log[1].password = log[2].password
          /\ log[1].res.evaluation.containedCommonWord # NULL

\* C9: for a password that is not a corpus member the handler reports the
\* first entry, in insertion order, of length >= 5 that the lowercased
\* password contains, and null exactly when there is none (so always null on
\* the empty corpus); findPartialMatch returns that entry for every password.
C9_FirstMatchWins ==
    [][/\ \A password \in StringBodies :
             /\ findPartialMatch(password, commonPasswords) =
                   FirstMatching(password, commonPasswords)
             /\ findPartialMatch(password, <<>>) = NULL
       /\ (HandledNow /\ Ok(Last)
             /\ Last.password.str \notin Range(commonPasswords)) =>
             LET word == Last.res.evaluation.containedCommonWord
                 M == Matching(Last.password.str, commonPasswords)
             IN  /\ word = FirstMatching(Last.password.str, commonPasswords)
                 /\ word = NULL <=> M = {}]_vars

\* two corpus entries are contained in the password, and the one reported is
\* the earlier
C9_Witness ==
    \E e \in Handled :
        /\ Ok(e) /\ e.loadEnded
        /\ Cardinality(Matching(e.password.str, commonPasswords)) >= 2
        /\ e.res.evaluation.containedCommonWord = commonPasswords[1]

\* C10: a handler call leaves the corpus unchanged; the corpus changes only
\* in a 'data' event, which adds one entry and removes none; after 'end' the
\* corpus never changes.
C10_CorpusFrame ==
    [][/\ HandledNow => commonPasswords' = commonPasswords
       /\ commonPasswords' # commonPasswords =>
             /\ nData' = nData + 1
             /\ log' = log
             /\ Range(commonPasswords) \subseteq Range(commonPasswords')
             /\ Cardinality(Range(commonPasswords')) =
                   Cardinality(Range(commonPasswords)) + 1
       /\ loadEnded => (loadEnded' /\ commonPasswords' = commonPasswords)]_vars

\* requests of each kind were handled after 'end' against a corpus of two
C10_Witness ==
    /\ loadEnded
    /\ Len(commonPasswords) = 2
    /\ Len(log) = 2
    /\ \A e \in Handled : e.loadEnded
    /\ ~Ok(log[1])
    /\ Ok(log[2])

====
